---- MODULE Spec2Model ----
(***************************************************************************)
(* State-machine model of src-tauri/src/main.rs: the launcher that brings  *)
(* up the inference engine (ollama) and the backend (flask), reports their *)
(* status, installs the engine and its model, and kills the children on    *)
(* window close.                                                           *)
(*                                                                         *)
(* Tasks: two bring-up calls that may overlap (the startup task spawned in  *)
(* setup, and the start_backend_services command, which the frontend may   *)
(* invoke again once it has returned), the check_service_status command,   *)
(* the install_ollama_and_model command, and the window-close handler.     *)
(* Every await (probe, sleep), every blocking OS call (spawn, command) and *)
(* every lock acquisition is a separate step, so tasks interleave there.   *)
(***************************************************************************)
EXTENDS Integers, Sequences, FiniteSets, TLC

\* ------------------------------------------------------------------ bounds
MaxInvokes == 1      \* invocations of the start_backend_services command
MaxCloses == 2       \* window-close events

\* The two bring-up calls that can be in progress at once.
StartupCall == "startup"
CommandCall == "command"
Calls == {StartupCall, CommandCall}

\* Lock owners: a bring-up call, the window-close handler, or nobody.
Handler == "handler"
NoOwner == "nobody"

\* Option<Child>: None, or the identity of a spawned child: which service it
\* is, which task spawned it, and in which of that task's calls.
None == <<"none", "nobody", 0>>

VARIABLES
    flask_process,   \* AppState.flask_process: None or a child
    ollama_process,  \* AppState.ollama_process: None or a child
    flask_lock,      \* owner of the flask_process mutex
    ollama_lock,     \* owner of the ollama_process mutex
    procs,           \* every child spawned so far -> the kill requests it has received
    pc,              \* bring-up call -> position in start_backend_services
    process,         \* bring-up call -> the local `process` (spawned, not yet stored)
    was_running,     \* bring-up call -> result of the first engine probe
    flask_running,   \* bring-up call -> the local flask_running of the re-probe
    trace,           \* bring-up call -> the steps the call has performed, in order
    result,          \* bring-up call -> what the call returned
    close_pc,        \* position of the window-close handler
    closes,          \* window-close events delivered so far
    invokes,         \* invocations of the start_backend_services command so far
    st_pc,           \* position of check_service_status
    st_flask,        \* check_service_status: local flask_running
    st_http,         \* check_service_status: what its two requests came back with
    st_result,       \* check_service_status: what the last call returned
    in_pc,           \* position of install_ollama_and_model
    in_platform,     \* target_os the binary was built for
    in_log,          \* the steps install_ollama_and_model has performed, in order
    in_stderr,       \* output.stderr of the pull command, when it exited with failure
    in_result        \* what install_ollama_and_model returned

supVars == <<flask_process, ollama_process, flask_lock, ollama_lock, procs,
             pc, process, was_running, flask_running, trace, result>>
closeVars == <<close_pc, closes, invokes>>
stVars == <<st_pc, st_flask, st_http, st_result>>
inVars == <<in_pc, in_platform, in_log, in_stderr, in_result>>
vars == <<supVars, closeVars, stVars, inVars>>

\* ------------------------------------------------------------ environment
\* What one HTTP GET with a 5 s timeout can come back with.
HttpOutcomes == {"transport_error", "timeout", "connection_refused",
                 "non_success_status", "success_status"}

\* Text of an OS-level error, as `{}` prints it.
OsErrors == {"No such file or directory (os error 2)"}

\* ------------------------------------------------------------- strings
\* Rust's str::contains on a pattern string.
Contains(s, t) == \E i \in 0..(Len(s) - Len(t)) : SubSeq(s, i + 1, i + Len(t)) = t

\* Printable ASCII: code points 32..95 and 97..126, in order.
AsciiLow == " !\"#$%&'()*+,-./0123456789:;<=>?@ABCDEFGHIJKLMNOPQRSTUVWXYZ[\\]^_"
AsciiHigh == "abcdefghijklmnopqrstuvwxyz{|}~"

AsciiChar(b) ==
    IF b < 96 THEN SubSeq(AsciiLow, b - 31, b - 31) ELSE SubSeq(AsciiHigh, b - 96, b - 96)

\* A Rust String as the sequence of its code points (the text is printable ASCII).
Str(s) == [i \in 1..Len(s) |->
             CHOOSE b \in (32..126) \ {96} : AsciiChar(b) = SubSeq(s, i, i)]

\* U+FFFD REPLACEMENT CHARACTER
ReplacementCharacter == 65533

\* String::from_utf8_lossy on bytes none of which begins a multi-byte sequence:
\* an ASCII byte is its own code point, and every byte that cannot begin a
\* character (0x80..0xC1, 0xF5..0xFF) becomes one U+FFFD.
from_utf8_lossy(bytes) ==
    [i \in 1..Len(bytes) |-> IF bytes[i] < 128 THEN bytes[i] ELSE ReplacementCharacter]

\* The UTF-8 bytes of one code point (ASCII, or U+FFFD = EF BF BD).
Utf8OfChar(cp) == IF cp < 128 THEN <<cp>> ELSE <<239, 191, 189>>

\* str::as_bytes: the UTF-8 encoding of a String.
RECURSIVE as_bytes(_)
as_bytes(str) == IF str = <<>> THEN <<>> ELSE Utf8OfChar(Head(str)) \o as_bytes(Tail(str))

\* ------------------------------------------------------------- probes
\* Result<bool, reqwest::Error>
OkBool(b) == [ok |-> TRUE, val |-> b]
ErrReqwest == [ok |-> FALSE, val |-> FALSE]

check_flask_running(o) ==
    IF o \in {"success_status", "non_success_status"}
    THEN OkBool(o = "success_status")      \* Ok(response) => Ok(status.is_success())
    ELSE OkBool(FALSE)                     \* Err(_) => Ok(false)

\* Faulty variant: a failed request is propagated instead of being turned into Ok(false).
check_ollama_running_propagates(o) ==
    IF o \in {"success_status", "non_success_status"}
    THEN OkBool(o = "success_status")
    ELSE ErrReqwest

check_ollama_running(o) ==
    IF o \in {"success_status", "non_success_status"}
    THEN OkBool(o = "success_status")
    ELSE OkBool(FALSE)

\* Result::unwrap_or(false)
unwrap_or_false(r) == IF r.ok THEN r.val ELSE FALSE

\* ------------------------------------------------------------- results
NoResult == [kind |-> "none", flask_running |-> FALSE, ollama_running |-> FALSE,
             message |-> ""]
Err(msg) == [kind |-> "Err", flask_running |-> FALSE, ollama_running |-> FALSE,
             message |-> msg]
OkStatus(f, o, msg) == [kind |-> "Ok", flask_running |-> f, ollama_running |-> o,
                        message |-> msg]

\* Faulty variant: || in place of &&.
StartMessageEither(f, o) ==
    IF f \/ o THEN "All services started successfully"
    ELSE "Some services failed to start"

\* The message of the ServiceStatus start_backend_services returns.
StartMessage(f, o) ==
    IF f /\ o THEN "All services started successfully"
    ELSE "Some services failed to start"

\* Faulty variant: the two words the wrong way round.
StatusMessageInverted(f, o) ==
    "Flask: " \o (IF f THEN "Stopped" ELSE "Running")
    \o ", Ollama: " \o (IF o THEN "Stopped" ELSE "Running")

\* The message of the ServiceStatus check_service_status returns.
StatusMessage(f, o) ==
    "Flask: " \o (IF f THEN "Running" ELSE "Stopped")
    \o ", Ollama: " \o (IF o THEN "Running" ELSE "Stopped")

\* ------------------------------------------------------------- children
\* One step of a bring-up call: what it did, whether it succeeded, and (for the
\* search of the backend script) what it found.
Step(name, ok) == [step |-> name, ok |-> ok, why |-> ""]
Located(o) == [step |-> "locate_flask", ok |-> (o = "present"), why |-> o]

Child(kind, c, n) == <<kind, c, n>>
KindOf(p) == p[1]
SpawnedBy(p) == p[2]

\* Command::spawn succeeded: one more child, with no kill request yet.
Spawned(ps, p) == [q \in DOMAIN ps \cup {p} |-> IF q = p THEN 0 ELSE ps[q]]

\* Child::kill: one more kill request to the child.
Kill(ps, p) == [ps EXCEPT ![p] = @ + 1]

\* Faulty variant: the slot is read, not taken.
TakeLeavesHandle(slot) == slot

\* Option::take: what is left in the slot.
Take(slot) == None

\* `*slot = Some(process)`: the previous value is dropped (std's Child has no
\* Drop that kills: the old child keeps running, its handle is gone).
Replace(slot, p) == p

\* ------------------------------------------------------- call bookkeeping
\* Which call of its task is in progress: the startup task makes one call, the
\* command is on its invokes-th.
CallNumber(c) == IF c = StartupCall THEN 1 ELSE invokes

\* The call moves to position `to`, having performed step `st`.
Advance(c, to, st) ==
    /\ pc' = [pc EXCEPT ![c] = to]
    /\ trace' = [trace EXCEPT ![c] = Append(@, st)]

\* The call returns `r`, having performed step `st`.
Return(c, r, st) ==
    /\ Advance(c, "done", st)
    /\ result' = [result EXCEPT ![c] = r]

\* ------------------------------------------------------------ lifecycle
\* setup's background task: sleep 2 s, then try_state (the state is managed,
\* so it is Some) and start_backend_services.
StartupSleep ==
    /\ pc[StartupCall] = "startup_sleep"
    /\ pc' = [pc EXCEPT ![StartupCall] = "probe_ollama"]
    /\ UNCHANGED <<flask_process, ollama_process, flask_lock, ollama_lock, procs,
                   process, was_running, flask_running, trace, result>>
    /\ UNCHANGED <<closeVars, stVars, inVars>>

\* The frontend invokes the start_backend_services command: a fresh call, with
\* fresh locals.
Invoke ==
    /\ pc[CommandCall] \in {"idle", "done"}
    /\ invokes < MaxInvokes
    /\ invokes' = invokes + 1
    /\ pc' = [pc EXCEPT ![CommandCall] = "probe_ollama"]
    /\ was_running' = [was_running EXCEPT ![CommandCall] = FALSE]
    /\ flask_running' = [flask_running EXCEPT ![CommandCall] = FALSE]
    /\ trace' = [trace EXCEPT ![CommandCall] = <<>>]
    /\ result' = [result EXCEPT ![CommandCall] = NoResult]
    /\ UNCHANGED <<flask_process, ollama_process, flask_lock, ollama_lock, procs, process>>
    /\ UNCHANGED <<close_pc, closes, stVars, inVars>>

\* --------------------------------------------------- start_backend_services
\* Faulty variant: the engine is started whatever the probe said.
AfterProbeAlwaysSpawns(up) == "spawn_ollama"

\* Faulty variant: the two arms of the match are swapped.
AfterProbeInverted(up) == IF up THEN "spawn_ollama" ELSE "locate_flask"

\* Ok(true) => (nothing to start), Ok(false) => start_ollama(&state).await?
AfterProbe(up) == IF up THEN "locate_flask" ELSE "spawn_ollama"

\* Faulty variant: a call probes only while no other call is between its own
\* probe and its engine store.
ProbeOllamaSerialised(c) ==
    /\ pc[c] = "probe_ollama"
    /\ \A d \in Calls \ {c} : pc[d] \notin {"spawn_ollama", "lock_ollama", "store_ollama"}
    /\ \E o \in HttpOutcomes :
         LET r == check_ollama_running(o) IN
         /\ Advance(c, AfterProbe(r.val), Step("probe_ollama", r.val))
         /\ was_running' = [was_running EXCEPT ![c] = r.val]
         /\ UNCHANGED result
    /\ UNCHANGED <<flask_process, ollama_process, flask_lock, ollama_lock, procs,
                   process, flask_running>>
    /\ UNCHANGED <<closeVars, stVars, inVars>>

\* match check_ollama_running().await
ProbeOllama(c) ==
    /\ pc[c] = "probe_ollama"
    /\ \E o \in HttpOutcomes, e \in OsErrors :
         LET r == check_ollama_running(o) IN
         IF ~r.ok
         THEN /\ Return(c, Err("Failed to check Ollama status: " \o e),
                        Step("probe_ollama", FALSE))
              /\ UNCHANGED was_running
         ELSE /\ Advance(c, AfterProbe(r.val), Step("probe_ollama", r.val))
              /\ was_running' = [was_running EXCEPT ![c] = r.val]
              /\ UNCHANGED result
    /\ UNCHANGED <<flask_process, ollama_process, flask_lock, ollama_lock, procs,
                   process, flask_running>>
    /\ UNCHANGED <<closeVars, stVars, inVars>>

\* start_ollama: Command::new("ollama").arg("serve")...spawn()
SpawnOllama(c) ==
    /\ pc[c] = "spawn_ollama"
    /\ \/ /\ procs' = Spawned(procs, Child("ollama", c, CallNumber(c)))
          /\ process' = [process EXCEPT ![c] = Child("ollama", c, CallNumber(c))]
          /\ Advance(c, "lock_ollama", Step("spawn_ollama", TRUE))
          /\ UNCHANGED result
       \/ \E e \in OsErrors :
          /\ Return(c, Err("Failed to start Ollama: " \o e), Step("spawn_ollama", FALSE))
          /\ UNCHANGED <<procs, process>>
    /\ UNCHANGED <<flask_process, ollama_process, flask_lock, ollama_lock,
                   was_running, flask_running>>
    /\ UNCHANGED <<closeVars, stVars, inVars>>

\* start_ollama: state.ollama_process.lock().unwrap() (no holder ever panics,
\* so the mutex is never poisoned)
LockOllama(c) ==
    /\ pc[c] = "lock_ollama"
    /\ ollama_lock = NoOwner
    /\ ollama_lock' = c
    /\ pc' = [pc EXCEPT ![c] = "store_ollama"]
    /\ UNCHANGED <<flask_process, ollama_process, flask_lock, procs,
                   process, was_running, flask_running, trace, result>>
    /\ UNCHANGED <<closeVars, stVars, inVars>>

\* Faulty variant: the guard outlives start_ollama.
StoreOllamaKeepsGuard(c) ==
    /\ pc[c] = "store_ollama"
    /\ ollama_lock = c
    /\ ollama_process' = Replace(ollama_process, process[c])
    /\ process' = [process EXCEPT ![c] = None]
    /\ Advance(c, "locate_flask", Step("store_ollama", TRUE))
    /\ UNCHANGED <<flask_process, flask_lock, ollama_lock, procs, was_running,
                   flask_running, result>>
    /\ UNCHANGED <<closeVars, stVars, inVars>>

\* start_ollama: *ollama_process = Some(process); the guard drops at return
StoreOllama(c) ==
    /\ pc[c] = "store_ollama"
    /\ ollama_lock = c
    /\ ollama_process' = Replace(ollama_process, process[c])
    /\ process' = [process EXCEPT ![c] = None]
    /\ ollama_lock' = NoOwner
    /\ Advance(c, "locate_flask", Step("store_ollama", TRUE))
    /\ UNCHANGED <<flask_process, flask_lock, procs, was_running, flask_running, result>>
    /\ UNCHANGED <<closeVars, stVars, inVars>>

\* What looking for <exe-dir>/backend/app.py can come back with.
LocateOutcomes == {"exe_error", "no_parent", "missing", "present"}

\* Faulty variant: the exists() test is missing.
LocateNextNoExistsTest(o) == IF o \in {"present", "missing"} THEN "spawn_flask" ELSE "done"

\* start_flask_backend, up to the exists() test: the position the call moves to.
LocateNext(o) == IF o = "present" THEN "spawn_flask" ELSE "done"

\* start_flask_backend, up to the exists() test: the error returned, if any.
LocateError(o, e) ==
    CASE o = "exe_error" -> "Failed to get current exe path: " \o e
      [] o = "no_parent" -> "Failed to get parent directory"
      [] o = "missing" ->
           "Backend script not found. Make sure app.py is bundled with the application."
      [] OTHER -> ""

\* Faulty variant: a call that fails to locate the script rolls back, killing
\* whatever the engine slot holds.
LocateFlaskRollsBack(c) ==
    /\ pc[c] = "locate_flask"
    /\ \E o \in LocateOutcomes, e \in OsErrors :
         IF LocateNext(o) = "done"
         THEN /\ Return(c, Err(LocateError(o, e)), Located(o))
              /\ ollama_process' = Take(ollama_process)
              /\ procs' = IF ollama_process # None THEN Kill(procs, ollama_process) ELSE procs
         ELSE /\ Advance(c, LocateNext(o), Located(o))
              /\ UNCHANGED <<result, ollama_process, procs>>
    /\ UNCHANGED <<flask_process, flask_lock, ollama_lock,
                   process, was_running, flask_running>>
    /\ UNCHANGED <<closeVars, stVars, inVars>>

LocateFlask(c) ==
    /\ pc[c] = "locate_flask"
    /\ \E o \in LocateOutcomes, e \in OsErrors :
         IF LocateNext(o) = "done"
         THEN Return(c, Err(LocateError(o, e)), Located(o))
         ELSE /\ Advance(c, LocateNext(o), Located(o))
              /\ UNCHANGED result
    /\ UNCHANGED <<flask_process, ollama_process, flask_lock, ollama_lock, procs,
                   process, was_running, flask_running>>
    /\ UNCHANGED <<closeVars, stVars, inVars>>

\* Faulty variant: the backend is spawned only when its slot is empty.
SpawnFlaskIfEmpty(c) ==
    /\ pc[c] = "spawn_flask"
    /\ IF flask_process # None
       THEN /\ pc' = [pc EXCEPT ![c] = "sleep"]
            /\ UNCHANGED <<procs, process, trace, result>>
       ELSE \/ /\ procs' = Spawned(procs, Child("flask", c, CallNumber(c)))
               /\ process' = [process EXCEPT ![c] = Child("flask", c, CallNumber(c))]
               /\ Advance(c, "lock_flask", Step("spawn_flask", TRUE))
               /\ UNCHANGED result
            \/ \E e \in OsErrors :
               /\ Return(c, Err("Failed to start Flask backend: " \o e),
                         Step("spawn_flask", FALSE))
               /\ UNCHANGED <<procs, process>>
    /\ UNCHANGED <<flask_process, ollama_process, flask_lock, ollama_lock,
                   was_running, flask_running>>
    /\ UNCHANGED <<closeVars, stVars, inVars>>

\* start_flask_backend: Command::new("python").arg(flask_script)...spawn()
SpawnFlask(c) ==
    /\ pc[c] = "spawn_flask"
    /\ \/ /\ procs' = Spawned(procs, Child("flask", c, CallNumber(c)))
          /\ process' = [process EXCEPT ![c] = Child("flask", c, CallNumber(c))]
          /\ Advance(c, "lock_flask", Step("spawn_flask", TRUE))
          /\ UNCHANGED result
       \/ \E e \in OsErrors :
          /\ Return(c, Err("Failed to start Flask backend: " \o e),
                    Step("spawn_flask", FALSE))
          /\ UNCHANGED <<procs, process>>
    /\ UNCHANGED <<flask_process, ollama_process, flask_lock, ollama_lock,
                   was_running, flask_running>>
    /\ UNCHANGED <<closeVars, stVars, inVars>>

\* start_flask_backend: state.flask_process.lock().unwrap()
LockFlask(c) ==
    /\ pc[c] = "lock_flask"
    /\ flask_lock = NoOwner
    /\ flask_lock' = c
    /\ pc' = [pc EXCEPT ![c] = "store_flask"]
    /\ UNCHANGED <<flask_process, ollama_process, ollama_lock, procs,
                   process, was_running, flask_running, trace, result>>
    /\ UNCHANGED <<closeVars, stVars, inVars>>

\* Faulty variant: the call goes on to the re-probes without the 3 s delay.
StoreFlaskNoDelay(c) ==
    /\ pc[c] = "store_flask"
    /\ flask_lock = c
    /\ flask_process' = Replace(flask_process, process[c])
    /\ process' = [process EXCEPT ![c] = None]
    /\ flask_lock' = NoOwner
    /\ Advance(c, "reprobe_flask", Step("store_flask", TRUE))
    /\ UNCHANGED <<ollama_process, ollama_lock, procs, was_running, flask_running, result>>
    /\ UNCHANGED <<closeVars, stVars, inVars>>

\* Faulty variant: the guard is never dropped.
StoreFlaskKeepsGuard(c) ==
    /\ pc[c] = "store_flask"
    /\ flask_lock = c
    /\ flask_process' = Replace(flask_process, process[c])
    /\ process' = [process EXCEPT ![c] = None]
    /\ Advance(c, "sleep", Step("store_flask", TRUE))
    /\ UNCHANGED <<ollama_process, flask_lock, ollama_lock, procs, was_running,
                   flask_running, result>>
    /\ UNCHANGED <<closeVars, stVars, inVars>>

\* start_flask_backend: *flask_process = Some(process); the guard drops at return
StoreFlask(c) ==
    /\ pc[c] = "store_flask"
    /\ flask_lock = c
    /\ flask_process' = Replace(flask_process, process[c])
    /\ process' = [process EXCEPT ![c] = None]
    /\ flask_lock' = NoOwner
    /\ Advance(c, "sleep", Step("store_flask", TRUE))
    /\ UNCHANGED <<ollama_process, ollama_lock, procs, was_running, flask_running, result>>
    /\ UNCHANGED <<closeVars, stVars, inVars>>

\* tokio::time::sleep(Duration::from_secs(3)).await
Sleep(c) ==
    /\ pc[c] = "sleep"
    /\ Advance(c, "reprobe_flask", Step("sleep", TRUE))
    /\ UNCHANGED <<flask_process, ollama_process, flask_lock, ollama_lock, procs,
                   process, was_running, flask_running, result>>
    /\ UNCHANGED <<closeVars, stVars, inVars>>

\* let flask_running = check_flask_running().await.unwrap_or(false)
ReprobeFlask(c) ==
    /\ pc[c] = "reprobe_flask"
    /\ \E o \in HttpOutcomes :
         LET f == unwrap_or_false(check_flask_running(o)) IN
         /\ flask_running' = [flask_running EXCEPT ![c] = f]
         /\ Advance(c, "reprobe_ollama", Step("reprobe_flask", f))
    /\ UNCHANGED <<flask_process, ollama_process, flask_lock, ollama_lock, procs,
                   process, was_running, result>>
    /\ UNCHANGED <<closeVars, stVars, inVars>>

\* let ollama_running = ...; Ok(ServiceStatus { .. })
ReprobeOllama(c) ==
    /\ pc[c] = "reprobe_ollama"
    /\ \E o \in HttpOutcomes :
         LET g == unwrap_or_false(check_ollama_running(o)) IN
         Return(c, OkStatus(flask_running[c], g, StartMessage(flask_running[c], g)),
                Step("reprobe_ollama", g))
    /\ UNCHANGED <<flask_process, ollama_process, flask_lock, ollama_lock, procs,
                   process, was_running, flask_running>>
    /\ UNCHANGED <<closeVars, stVars, inVars>>

\* ------------------------------------------------------- on_window_event
\* WindowEvent::CloseRequested is delivered; the handler runs on the event loop,
\* one event at a time. It neither exits the process nor stops the bring-up
\* tasks, which run on the async runtime's own threads and go on being
\* scheduled beside it and after it.
CloseRequested ==
    /\ close_pc = "idle"
    /\ closes < MaxCloses
    /\ closes' = closes + 1
    /\ close_pc' = "lock_flask"
    /\ UNCHANGED <<invokes, supVars, stVars, inVars>>

\* if let Ok(mut flask_process) = state.flask_process.lock()
CloseLockFlask ==
    /\ close_pc = "lock_flask"
    /\ flask_lock = NoOwner
    /\ flask_lock' = Handler
    /\ close_pc' = "take_flask"
    /\ UNCHANGED <<flask_process, ollama_process, ollama_lock, procs,
                   pc, process, was_running, flask_running, trace, result>>
    /\ UNCHANGED <<closes, invokes, stVars, inVars>>

\* if let Some(mut process) = flask_process.take() { let _ = process.kill(); }
CloseTakeFlask ==
    /\ close_pc = "take_flask"
    /\ flask_lock = Handler
    /\ flask_process' = Take(flask_process)
    /\ procs' = IF flask_process # None THEN Kill(procs, flask_process) ELSE procs
    /\ flask_lock' = NoOwner
    /\ close_pc' = "lock_ollama"
    /\ UNCHANGED <<ollama_process, ollama_lock,
                   pc, process, was_running, flask_running, trace, result>>
    /\ UNCHANGED <<closes, invokes, stVars, inVars>>

\* if let Ok(mut ollama_process) = state.ollama_process.lock()
CloseLockOllama ==
    /\ close_pc = "lock_ollama"
    /\ ollama_lock = NoOwner
    /\ ollama_lock' = Handler
    /\ close_pc' = "take_ollama"
    /\ UNCHANGED <<flask_process, ollama_process, flask_lock, procs,
                   pc, process, was_running, flask_running, trace, result>>
    /\ UNCHANGED <<closes, invokes, stVars, inVars>>

\* if let Some(mut process) = ollama_process.take() { let _ = process.kill(); }
CloseTakeOllama ==
    /\ close_pc = "take_ollama"
    /\ ollama_lock = Handler
    /\ ollama_process' = Take(ollama_process)
    /\ procs' = IF ollama_process # None THEN Kill(procs, ollama_process) ELSE procs
    /\ ollama_lock' = NoOwner
    /\ close_pc' = "idle"
    /\ UNCHANGED <<flask_process, flask_lock,
                   pc, process, was_running, flask_running, trace, result>>
    /\ UNCHANGED <<closes, invokes, stVars, inVars>>

\* --------------------------------------------------- check_service_status
StatusInvoke ==
    /\ st_pc \in {"idle", "done"}
    /\ st_pc' = "probe_flask"
    /\ st_flask' = FALSE
    /\ st_http' = <<>>
    /\ st_result' = NoResult
    /\ UNCHANGED <<supVars, closeVars, inVars>>

\* Faulty variant: a status query that finds the backend down starts it and
\* stores the handle.
StatusProbeFlaskRestarts ==
    /\ st_pc = "probe_flask"
    /\ \E o \in HttpOutcomes :
         LET f == unwrap_or_false(check_flask_running(o)) IN
         /\ st_flask' = f
         /\ st_http' = Append(st_http, o)
         /\ procs' = IF f THEN procs ELSE Spawned(procs, Child("flask", "status", 1))
         /\ flask_process' = IF f THEN flask_process ELSE Child("flask", "status", 1)
    /\ st_pc' = "probe_ollama"
    /\ UNCHANGED st_result
    /\ UNCHANGED <<ollama_process, flask_lock, ollama_lock,
                   pc, process, was_running, flask_running, trace, result>>
    /\ UNCHANGED <<closeVars, inVars>>

\* let flask_running = check_flask_running().await.unwrap_or(false)
StatusProbeFlask ==
    /\ st_pc = "probe_flask"
    /\ \E o \in HttpOutcomes :
         /\ st_flask' = unwrap_or_false(check_flask_running(o))
         /\ st_http' = Append(st_http, o)
    /\ st_pc' = "probe_ollama"
    /\ UNCHANGED st_result
    /\ UNCHANGED <<supVars, closeVars, inVars>>

\* let ollama_running = ...; Ok(ServiceStatus { .. })
StatusProbeOllama ==
    /\ st_pc = "probe_ollama"
    /\ \E o \in HttpOutcomes :
         LET g == unwrap_or_false(check_ollama_running(o)) IN
         /\ st_result' = OkStatus(st_flask, g, StatusMessage(st_flask, g))
         /\ st_http' = Append(st_http, o)
    /\ st_pc' = "done"
    /\ UNCHANGED st_flask
    /\ UNCHANGED <<supVars, closeVars, inVars>>

\* ------------------------------------------------ install_ollama_and_model
Platforms == {"windows", "macos", "linux"}

\* What running an external command to completion (Command::output) can come
\* back with: it could not be spawned, or it exited.
CmdOutcomes == {"spawn_error", "exit_failure", "exit_success"}

\* Bodies the tags endpoint may answer with; none is the body that cannot be read.
TagBodies == {"{\"models\":[]}",
              "{\"models\":[{\"name\":\"phi:latest\"}]}",
              "{\"models\":[{\"name\":\"llama2:latest\"}]}",
              "none"}

\* Captured stderr of `ollama pull phi`, as bytes: empty, "err", one byte that is
\* not UTF-8, and text around such a byte.
StderrSamples == {<<>>, <<101, 114, 114>>, <<255>>, <<101, 255, 114>>}

\* check_ollama_installed: Command::new("ollama").arg("--version").output().is_ok()
check_ollama_installed(o) == o # "spawn_error"

\* Faulty variant: only a response with a success status is searched.
check_phi_model_available_on_success(o, body) ==
    IF o = "success_status"
    THEN IF body # "none" THEN Contains(body, "phi") ELSE FALSE
    ELSE FALSE

\* check_phi_model_available: any response counts, whatever its status
check_phi_model_available(o, body) ==
    IF o \in {"success_status", "non_success_status"}
    THEN IF body # "none" THEN Contains(body, "phi") ELSE FALSE
    ELSE FALSE

\* The command install_ollama runs on each target_os.
InstallCommand(platform) ==
    IF platform = "windows"
    THEN "powershell -Command Invoke-WebRequest ...; Start-Process ... -Wait"
    ELSE "curl -fsSL https://ollama.ai/install.sh | sh"

PlatformName(platform) ==
    CASE platform = "windows" -> "Windows"
      [] platform = "macos" -> "macOS"
      [] OTHER -> "Linux"

\* Faulty variant: the exit status of the install command is not looked at.
install_ollama_ignores_status(platform, o, e) ==
    CASE o = "spawn_error" ->
           Err(Str("Failed to install Ollama on " \o PlatformName(platform) \o ": " \o e))
      [] OTHER -> NoResult

\* install_ollama: Result<(), String>
install_ollama(platform, o, e) ==
    CASE o = "spawn_error" ->
           Err(Str("Failed to install Ollama on " \o PlatformName(platform) \o ": " \o e))
      [] o = "exit_failure" -> Err(Str("Ollama installation failed"))
      [] OTHER -> NoResult

\* Faulty variant: the captured stderr is left out of the error.
pull_phi_model_without_stderr(o, e, stderr) ==
    CASE o = "spawn_error" -> Err(Str("Failed to pull phi model: " \o e))
      [] o = "exit_failure" -> Err(Str("Failed to pull phi model"))
      [] OTHER -> NoResult

\* pull_phi_model: Result<(), String>
pull_phi_model(o, e, stderr) ==
    CASE o = "spawn_error" -> Err(Str("Failed to pull phi model: " \o e))
      [] o = "exit_failure" ->
           Err(Str("Failed to pull phi model: ") \o from_utf8_lossy(stderr))
      [] OTHER -> NoResult

\* Result<String, String>: Ok(message)
OkMessage(msg) == [kind |-> "Ok", flask_running |-> FALSE, ollama_running |-> FALSE,
                   message |-> msg]

\* One step of the install command: what was run, and what came back.
Ran(step, outcome, detail) == [step |-> step, outcome |-> outcome, detail |-> detail]

InstallInvoke ==
    /\ in_pc \in {"idle", "done"}
    /\ in_pc' = "check_installed"
    /\ in_log' = <<>>
    /\ in_stderr' = <<>>
    /\ in_result' = NoResult
    /\ UNCHANGED in_platform
    /\ UNCHANGED <<supVars, closeVars, stVars>>

\* if check_ollama_installed()
CheckInstalled ==
    /\ in_pc = "check_installed"
    /\ \E o \in CmdOutcomes :
         /\ in_pc' = IF check_ollama_installed(o) THEN "check_model" ELSE "install"
         /\ in_log' = Append(in_log, Ran("ollama --version", o, ""))
    /\ UNCHANGED <<in_platform, in_stderr, in_result>>
    /\ UNCHANGED <<supVars, closeVars, stVars>>

\* if check_phi_model_available().await { return Ok(..) }
CheckModel ==
    /\ in_pc = "check_model"
    /\ \E o \in HttpOutcomes, body \in TagBodies :
         /\ IF check_phi_model_available(o, body)
            THEN /\ in_result' = OkMessage(Str("Ollama and phi model are already installed"))
                 /\ in_pc' = "done"
            ELSE /\ in_pc' = "pull_installed"
                 /\ UNCHANGED in_result
         /\ in_log' = Append(in_log,
                IF o \in {"success_status", "non_success_status"}
                THEN Ran("GET /api/tags", o, body) ELSE Ran("GET /api/tags", o, ""))
    /\ UNCHANGED <<in_platform, in_stderr>>
    /\ UNCHANGED <<supVars, closeVars, stVars>>

\* pull_phi_model().await?; return Ok(..), on either path
Pull(at, success) ==
    /\ in_pc = at
    /\ \E o \in CmdOutcomes, e \in OsErrors, stderr \in StderrSamples :
         LET r == pull_phi_model(o, e, stderr) IN
         /\ in_result' = IF r.kind = "Err" THEN r ELSE OkMessage(Str(success))
         /\ in_stderr' = IF o = "exit_failure" THEN stderr ELSE <<>>
         /\ in_log' = Append(in_log, Ran("ollama pull phi", o, ""))
    /\ in_pc' = "done"
    /\ UNCHANGED in_platform
    /\ UNCHANGED <<supVars, closeVars, stVars>>

PullInstalled == Pull("pull_installed", "Phi model installed successfully")

\* install_ollama().await?
Install ==
    /\ in_pc = "install"
    /\ \E o \in CmdOutcomes, e \in OsErrors :
         LET r == install_ollama(in_platform, o, e) IN
         /\ IF r.kind = "Err"
            THEN /\ in_result' = r
                 /\ in_pc' = "done"
            ELSE /\ in_pc' = "sleep"
                 /\ UNCHANGED in_result
         /\ in_log' = Append(in_log, Ran(InstallCommand(in_platform), o, ""))
    /\ UNCHANGED <<in_platform, in_stderr>>
    /\ UNCHANGED <<supVars, closeVars, stVars>>

\* tokio::time::sleep(Duration::from_secs(5)).await
InstallSleep ==
    /\ in_pc = "sleep"
    /\ in_pc' = "pull_fresh"
    /\ in_log' = Append(in_log, Ran("sleep 5", "elapsed", ""))
    /\ UNCHANGED <<in_platform, in_stderr, in_result>>
    /\ UNCHANGED <<supVars, closeVars, stVars>>

\* Faulty variant: after a fresh install the tag listing is queried first, and
\* the pull is run only when the model is not listed.
PullFreshChecksModel ==
    /\ in_pc = "pull_fresh"
    /\ \E h \in HttpOutcomes, body \in TagBodies, o \in CmdOutcomes,
          e \in OsErrors, stderr \in StderrSamples :
         LET r == pull_phi_model(o, e, stderr) IN
         IF check_phi_model_available(h, body)
         THEN /\ in_result' = OkMessage(Str("Ollama and phi model are already installed"))
              /\ in_log' = Append(in_log, Ran("GET /api/tags", h, body))
              /\ UNCHANGED in_stderr
         ELSE /\ in_result' = IF r.kind = "Err" THEN r
                               ELSE OkMessage(Str("Ollama and phi model installed successfully"))
              /\ in_stderr' = IF o = "exit_failure" THEN stderr ELSE <<>>
              /\ in_log' = in_log \o <<Ran("GET /api/tags", h, ""), Ran("ollama pull phi", o, "")>>
    /\ in_pc' = "done"
    /\ UNCHANGED in_platform
    /\ UNCHANGED <<supVars, closeVars, stVars>>

PullFresh == Pull("pull_fresh", "Ollama and phi model installed successfully")

\* ------------------------------------------------------- specification
InitSupervisor ==
    /\ flask_process = None
    /\ ollama_process = None
    /\ flask_lock = NoOwner
    /\ ollama_lock = NoOwner
    /\ procs = << >>
    /\ pc = [c \in Calls |-> IF c = StartupCall THEN "startup_sleep" ELSE "idle"]
    /\ process = [c \in Calls |-> None]
    /\ was_running = [c \in Calls |-> FALSE]
    /\ flask_running = [c \in Calls |-> FALSE]
    /\ trace = [c \in Calls |-> <<>>]
    /\ result = [c \in Calls |-> NoResult]
    /\ close_pc = "idle"
    /\ closes = 0
    /\ invokes = 0
    /\ st_pc = "idle"
    /\ st_flask = FALSE
    /\ st_http = <<>>
    /\ st_result = NoResult

InitInstaller ==
    /\ in_pc = "idle"
    /\ in_log = <<>>
    /\ in_stderr = <<>>
    /\ in_result = NoResult

\* The supervisor, the lifecycle hooks and the status command do not depend on
\* target_os: they are followed on one build.
Init ==
    /\ InitSupervisor
    /\ InitInstaller
    /\ in_platform = "linux"

BringUp(c) ==
    \/ ProbeOllama(c)
    \/ SpawnOllama(c)
    \/ LockOllama(c)
    \/ StoreOllama(c)
    \/ LocateFlask(c)
    \/ SpawnFlask(c)
    \/ LockFlask(c)
    \/ StoreFlask(c)
    \/ Sleep(c)
    \/ ReprobeFlask(c)
    \/ ReprobeOllama(c)

WindowClose ==
    \/ CloseRequested
    \/ CloseLockFlask
    \/ CloseTakeFlask
    \/ CloseLockOllama
    \/ CloseTakeOllama

Status ==
    \/ StatusInvoke
    \/ StatusProbeFlask
    \/ StatusProbeOllama

\* The supervisor and the lifecycle hooks: both bring-up calls and the handler.
Next ==
    \/ StartupSleep
    \/ Invoke
    \/ \E c \in Calls : BringUp(c)
    \/ WindowClose

Spec == Init /\ [][Next]_vars

\* The status command, beside the startup task and the handler.
StatusNext ==
    \/ StartupSleep
    \/ BringUp(StartupCall)
    \/ WindowClose
    \/ Status

StatusSpec == Init /\ [][StatusNext]_vars

\* The install command, on each of the three builds.
InstallInit ==
    /\ InitSupervisor
    /\ InitInstaller
    /\ in_platform \in Platforms

InstallNext ==
    \/ InstallInvoke
    \/ CheckInstalled
    \/ CheckModel
    \/ PullInstalled
    \/ Install
    \/ InstallSleep
    \/ PullFresh

InstallSpec == InstallInit /\ [][InstallNext]_vars

\* The steps the window-close handler takes once an event was delivered.
HandlerRun == CloseLockFlask \/ CloseTakeFlask \/ CloseLockOllama \/ CloseTakeOllama

\* Scheduling: the runtime keeps running every task that can take a step (the
\* startup task's timer fires, a call's probe, spawn or sleep returns, a lock
\* that stays free is acquired), and the event loop keeps running the handler.
\* Nothing obliges the user to invoke the command or to close the window.
FairSpec ==
    /\ Init
    /\ [][Next]_vars
    /\ WF_vars(StartupSleep)
    /\ \A c \in Calls : WF_vars(BringUp(c))
    /\ WF_vars(HandlerRun)

\* ================================================================ claims
Pids == DOMAIN procs

\* The children whose handle the program still holds: in a slot, or in the
\* local `process` of a call between its spawn and its store.
Held == ({flask_process, ollama_process} \cup {process[c] : c \in Calls}) \ {None}

Steps(c) == {trace[c][i].step : i \in 1..Len(trace[c])}

\* The call has performed step `name` with outcome `ok`.
Did(c, name, ok) == \E i \in 1..Len(trace[c]) : trace[c][i] = Step(name, ok)

Finished(c) == pc[c] = "done"

\* No call of this task is in progress: it has returned, or was never invoked.
Quiet(c) == pc[c] \in {"idle", "done"}

StepNames(c) == [i \in 1..Len(trace[c]) |-> trace[c][i].step]

\* The names of the steps in a log, in order.
StepNamesOf(log) == [i \in 1..Len(log) |-> log[i].step]

\* ---------------------------------------------------------------- C1
\* C1: when the window-close handler takes a slot, the slot is left None and
\* the child whose handle it held receives one kill request, no other child
\* any; no child ever has more than one kill request, and a killed child's
\* handle is in no slot, so a second window-close finds nothing to kill again.
C1_KilledOnce ==
    \A p \in Pids : procs[p] <= 1 /\ (procs[p] = 1 => p \notin Held)

C1_TakeFlask ==
    (close_pc = "take_flask" /\ close_pc' = "lock_ollama") =>
        /\ flask_process' = None
        /\ \A p \in Pids :
             procs'[p] = procs[p] + (IF p = flask_process THEN 1 ELSE 0)

C1_TakeOllama ==
    (close_pc = "take_ollama" /\ close_pc' = "idle") =>
        /\ ollama_process' = None
        /\ \A p \in Pids :
             procs'[p] = procs[p] + (IF p = ollama_process THEN 1 ELSE 0)

\* C1, in full: no child is ever killed twice or still held once killed, and
\* each take of the handler empties its slot and kills exactly the child it held.
C1_ShutdownEmptiesAndKillsOnce ==
    /\ []C1_KilledOnce
    /\ [][C1_TakeFlask /\ C1_TakeOllama]_vars

\* A bring-up call stored both handles, two window-close events were handled,
\* both slots are empty and each of the two children has exactly one kill request.
C1_Witness ==
    /\ closes = 2
    /\ close_pc = "idle"
    /\ \E c \in Calls : {"store_ollama", "store_flask"} \subseteq Steps(c)
    /\ Cardinality(Pids) = 2
    /\ \A p \in Pids : procs[p] = 1
    /\ flask_process = None
    /\ ollama_process = None

\* ---------------------------------------------------------------- C2
\* C2: once at least one window-close has been handled and the handler and
\* every bring-up call have finished, every child a bring-up call spawned has
\* received a kill request.
C2_EverySpawnedChildKilled ==
    (closes >= 1 /\ close_pc = "idle" /\ \A c \in Calls : Quiet(c)) =>
        \A p \in Pids : procs[p] >= 1

\* ---------------------------------------------------------------- C3
\* C3: no handle of a child that has not been killed is ever lost: a child with
\* no kill request is still held, in a slot or by the call about to store it
\* (so a store never overwrites the handle of a running child).
C3_NoLiveHandleOverwritten ==
    \A p \in Pids : procs[p] = 0 => p \in Held

\* ---------------------------------------------------------------- C4
\* C4: a call that finds the backend script missing has returned Err with the
\* "Backend script not found ... app.py" message, that search is its last step
\* (no backend spawn, no store into the backend slot, no 3 s sleep, no
\* re-probe), and the step itself leaves the backend slot and the children as
\* they were.
C4_MissingIsLastStep ==
    \A c \in Calls :
        (\E i \in 1..Len(trace[c]) : trace[c][i] = Located("missing")) =>
            /\ Finished(c)
            /\ result[c].kind = "Err"
            /\ Contains(result[c].message, "Backend script not found")
            /\ Contains(result[c].message, "app.py")
            /\ trace[c][Len(trace[c])] = Located("missing")
            /\ Steps(c) \cap {"spawn_flask", "store_flask", "sleep",
                              "reprobe_flask", "reprobe_ollama"} = {}

C4_LocateStep ==
    \A c \in Calls :
        (pc[c] = "locate_flask" /\ pc'[c] = "done") =>
            /\ flask_process' = flask_process
            /\ procs' = procs
            /\ flask_lock' = flask_lock

\* C4, in full: a missing backend script ends the call with the error, and the
\* step that finds it missing touches neither the backend slot nor any child.
C4_MissingBackendScript ==
    /\ []C4_MissingIsLastStep
    /\ [][C4_LocateStep]_vars

\* A call that started the engine, stored its handle and then found the
\* backend script missing, while the backend slot holds another call's child.
C4_Witness ==
    \E c \in Calls :
        /\ Finished(c)
        /\ Did(c, "store_ollama", TRUE)
        /\ trace[c][Len(trace[c])] = Located("missing")
        /\ flask_process # None

\* ---------------------------------------------------------------- C5
\* The scenario: the first probe finds the engine up, and the backend script
\* is present.
C5_Scenario(c) ==
    /\ Len(trace[c]) >= 2
    /\ trace[c][1] = Step("probe_ollama", TRUE)
    /\ \E i \in 1..Len(trace[c]) : trace[c][i] = Located("present")

\* What the call returns in the scenario once the backend has been spawned:
\* it slept before re-probing, backend_running is the re-probe's answer, and
\* with the backend down and the engine still up the record is
\* (engine=true, backend=false, "Some services failed to start").
C5_AfterSpawn(c) ==
    /\ StepNames(c) = <<"probe_ollama", "locate_flask", "spawn_flask", "store_flask",
                        "sleep", "reprobe_flask", "reprobe_ollama">>
    /\ result[c].kind = "Ok"
    /\ result[c].flask_running = Did(c, "reprobe_flask", TRUE)
    /\ (Did(c, "reprobe_flask", FALSE) /\ Did(c, "reprobe_ollama", TRUE)) =>
           result[c] = OkStatus(FALSE, TRUE, "Some services failed to start")

\* C5 as stated: in the scenario the call spawns exactly one child (the
\* backend) and no engine, sleeps, and returns Ok as C5_AfterSpawn says.
C5_AsStated ==
    \A c \in Calls :
        (Finished(c) /\ C5_Scenario(c)) =>
            /\ "spawn_ollama" \notin Steps(c)
            /\ Did(c, "spawn_flask", TRUE)
            /\ C5_AfterSpawn(c)

\* C5 as amended: in the scenario the call attempts no engine spawn and exactly
\* one backend spawn; if that spawn succeeds the call goes on as C5_AfterSpawn
\* says, and if it fails the call returns Err("Failed to start Flask
\* backend: ..") at once, with no sleep and no re-probe.
C5_EngineUpBackendDown ==
    \A c \in Calls :
        (Finished(c) /\ C5_Scenario(c)) =>
            /\ "spawn_ollama" \notin Steps(c)
            /\ Cardinality({i \in 1..Len(trace[c]) : trace[c][i].step = "spawn_flask"}) = 1
            /\ IF Did(c, "spawn_flask", TRUE)
               THEN C5_AfterSpawn(c)
               ELSE /\ StepNames(c) = <<"probe_ollama", "locate_flask", "spawn_flask">>
                    /\ result[c].kind = "Err"
                    /\ Contains(result[c].message, "Failed to start Flask backend: ")

\* A call in the scenario whose backend did not answer the re-probe while the
\* engine did, and the only child it spawned is a backend.
C5_Witness ==
    \E c \in Calls :
        /\ Finished(c)
        /\ C5_Scenario(c)
        /\ result[c] = OkStatus(FALSE, TRUE, "Some services failed to start")
        /\ \E p \in Pids : SpawnedBy(p) = c /\ KindOf(p) = "flask"
        /\ \A p \in Pids : SpawnedBy(p) = c => KindOf(p) = "flask"

\* ---------------------------------------------------------------- C6
\* Positions in the install command's log at which `step` was run.
Ran_at(step) == {i \in 1..Len(in_log) : in_log[i].step = step}

\* The presence check (`ollama --version`, always the first step) failed.
C6_PresenceFailed == Len(in_log) >= 1 /\ in_log[1].outcome = "spawn_error"

\* The presence check succeeded and the tag listing that came back contains "phi".
C6_ModelListed ==
    /\ Len(in_log) >= 2
    /\ in_log[1].outcome # "spawn_error"
    /\ in_log[2].step = "GET /api/tags"
    /\ in_log[2].outcome \in {"success_status", "non_success_status"}
    /\ Contains(in_log[2].detail, "phi")

\* C6: if the presence check failed, the next step run is the platform's
\* install command, every pull comes after it, and a finished call has run it;
\* if the presence check succeeded and the model is listed, the call has
\* returned the already-installed message having run neither install nor pull.
C6_InstallBeforePull ==
    /\ C6_PresenceFailed =>
          /\ Len(in_log) >= 2 => in_log[2].step = InstallCommand(in_platform)
          /\ in_pc = "done" => Ran_at(InstallCommand(in_platform)) = {2}
          /\ \A i \in Ran_at("ollama pull phi") :
                \E j \in Ran_at(InstallCommand(in_platform)) : j < i
    /\ C6_ModelListed =>
          /\ in_pc = "done"
          /\ in_result = OkMessage(Str("Ollama and phi model are already installed"))
          /\ Ran_at("ollama pull phi") = {}
          /\ \A q \in Platforms : Ran_at(InstallCommand(q)) = {}

\* The presence check failed, the install command ran, and then the pull.
C6_Witness ==
    /\ in_pc = "done"
    /\ C6_PresenceFailed
    /\ Ran_at(InstallCommand(in_platform)) = {2}
    /\ Ran_at("ollama pull phi") = {4}

\* The other case of C6: the model was listed, nothing was installed or pulled.
C6_WitnessListed == in_pc = "done" /\ C6_ModelListed /\ Len(in_log) = 2

\* ---------------------------------------------------------------- C7
\* The pull command ran last and exited with a failure status.
C7_PullFailed ==
    /\ in_pc = "done"
    /\ Len(in_log) >= 1
    /\ in_log[Len(in_log)] = Ran("ollama pull phi", "exit_failure", "")

C7_SuccessMessages ==
    {Str("Ollama and phi model are already installed"),
     Str("Phi model installed successfully"),
     Str("Ollama and phi model installed successfully")}

\* C7 as stated: after a failed pull the call has returned Err, and the bytes of
\* its text contain the bytes captured from the pull command's stderr.
C7_AsStated ==
    C7_PullFailed =>
        /\ in_result.kind = "Err"
        /\ Contains(as_bytes(in_result.message), in_stderr)

\* C7 as amended: after a failed pull, on either path, the call has returned
\* Err, never a success message, and its text contains the captured stderr as
\* from_utf8_lossy decodes it (each invalid byte replaced by U+FFFD), which is
\* the captured bytes themselves whenever they are valid UTF-8.
C7_PullFailureCarriesStderr ==
    C7_PullFailed =>
        /\ in_result.kind = "Err"
        /\ in_result.message \notin C7_SuccessMessages
        /\ Contains(in_result.message, from_utf8_lossy(in_stderr))
        /\ (\A i \in 1..Len(in_stderr) : in_stderr[i] < 128) =>
               Contains(as_bytes(in_result.message), in_stderr)

\* The engine was just installed, the pull failed, and its stderr was "err".
C7_Witness ==
    /\ C7_PullFailed
    /\ Ran_at("sleep 5") # {}
    /\ in_stderr = <<101, 114, 114>>
    /\ in_result = Err(Str("Failed to pull phi model: err"))

\* ---------------------------------------------------------------- C8
\* C8: whatever the request comes back with, both probes return Ok(bool), true
\* exactly for a response with a success status; so no bring-up call returns
\* the "Failed to check Ollama status" error, and check_service_status returns
\* Ok with the two booleans its two requests give.
C8_ProbesNeverErr ==
    /\ \A o \in HttpOutcomes :
          /\ check_flask_running(o) = OkBool(o = "success_status")
          /\ check_ollama_running(o) = OkBool(o = "success_status")
    /\ \A c \in Calls : ~Contains(result[c].message, "Failed to check Ollama status")
    /\ st_result.kind # "Err"
    /\ st_pc = "done" =>
          /\ st_result.kind = "Ok"
          /\ st_result.flask_running = (st_http[1] = "success_status")
          /\ st_result.ollama_running = (st_http[2] = "success_status")

\* A status query whose requests were refused and answered with a non-success
\* status, beside a bring-up call whose first probe failed and that went on.
C8_Witness ==
    /\ st_pc = "done"
    /\ st_http = <<"connection_refused", "non_success_status">>
    /\ st_result = OkStatus(FALSE, FALSE, "Flask: Stopped, Ollama: Stopped")
    /\ Did(StartupCall, "probe_ollama", FALSE)
    /\ Finished(StartupCall)
    /\ result[StartupCall].kind = "Ok"

\* ---------------------------------------------------------------- C9
\* C9: a bring-up call that returned Ok carries "All services started
\* successfully" exactly when both re-probes answered true and "Some services
\* failed to start" otherwise, and its two booleans are the two re-probe
\* answers (not the first probe's).
C9_MessageMatchesReprobes ==
    \A c \in Calls :
        result[c].kind = "Ok" =>
            /\ result[c].flask_running = Did(c, "reprobe_flask", TRUE)
            /\ result[c].ollama_running = Did(c, "reprobe_ollama", TRUE)
            /\ result[c].message =
                  (IF Did(c, "reprobe_flask", TRUE) /\ Did(c, "reprobe_ollama", TRUE)
                   THEN "All services started successfully"
                   ELSE "Some services failed to start")

\* A call whose first probe found the engine down, whose re-probes found the
\* engine up and the backend down, and which reports just that.
C9_Witness ==
    \E c \in Calls :
        /\ Did(c, "probe_ollama", FALSE)
        /\ result[c] = OkStatus(FALSE, TRUE, "Some services failed to start")

\* ---------------------------------------------------------------- C10
\* C10 as stated: with both services reachable, the status message contains
\* "Running, Running".
C10_AsStated ==
    (st_pc = "done" /\ st_result.flask_running /\ st_result.ollama_running) =>
        Contains(st_result.message, "Running, Running")

\* C10 as amended: with both services reachable, the status message is
\* "Flask: Running, Ollama: Running": it says Running for each service, and
\* "Stopped" nowhere.
C10_BothRunningMessage ==
    (st_pc = "done" /\ st_result.flask_running /\ st_result.ollama_running) =>
        /\ st_result.message = "Flask: Running, Ollama: Running"
        /\ Contains(st_result.message, "Flask: Running")
        /\ Contains(st_result.message, "Ollama: Running")
        /\ ~Contains(st_result.message, "Stopped")

\* A status query both of whose requests were answered with a success status.
C10_Witness ==
    /\ st_pc = "done"
    /\ st_http = <<"success_status", "success_status">>
    /\ st_result.flask_running
    /\ st_result.ollama_running

\* ---------------------------------------------------------------- C11
\* A step of check_service_status: the command is invoked, or one of its two
\* probes returns.
C11_StatusStep == st_pc' # st_pc

\* What check_service_status has no access to: the two slots and their locks,
\* the children, and the external commands run so far.
C11_Frame == <<flask_process, ollama_process, flask_lock, ollama_lock, procs, in_log>>

\* C11: check_service_status is read-only: none of its steps spawns a child,
\* runs an external command or changes a slot or a lock; a call that has
\* returned has made exactly two requests and returned a status record.
C11_StatusIsReadOnly ==
    /\ [](st_pc = "done" => (Len(st_http) = 2 /\ st_result.kind = "Ok"))
    /\ [][C11_StatusStep => UNCHANGED C11_Frame]_vars

\* A status query that found both services down has returned while both slots
\* hold a child of the startup call, neither of them killed.
C11_Witness ==
    /\ st_pc = "done"
    /\ st_result = OkStatus(FALSE, FALSE, "Flask: Stopped, Ollama: Stopped")
    /\ flask_process = Child("flask", StartupCall, 1)
    /\ ollama_process = Child("ollama", StartupCall, 1)
    /\ procs[flask_process] = 0
    /\ procs[ollama_process] = 0

\* ---------------------------------------------------------------- C12
\* The steps of a bring-up call that starts the engine, and of one that finds
\* it up, in the order the claim gives.
C12_WithEngineSpawn ==
    <<"probe_ollama", "spawn_ollama", "store_ollama", "locate_flask", "spawn_flask",
      "store_flask", "sleep", "reprobe_flask", "reprobe_ollama">>

C12_WithoutEngineSpawn ==
    <<"probe_ollama", "locate_flask", "spawn_flask",
      "store_flask", "sleep", "reprobe_flask", "reprobe_ollama">>

IsPrefix(s, t) == Len(s) <= Len(t) /\ SubSeq(t, 1, Len(s)) = s

\* The call is at its backend spawn: spawning, or storing the handle.
C12_AtBackendSpawn(c) == pc[c] \in {"spawn_flask", "lock_flask", "store_flask"}

\* The call is at its engine spawn: spawning, or storing the handle.
C12_AtEngineSpawn(c) == pc[c] \in {"spawn_ollama", "lock_ollama", "store_ollama"}

\* C12: within one bring-up call the steps occur strictly in the order engine
\* probe, engine spawn and store (if any), backend locate, backend spawn and
\* store, delay, re-probe of the backend, re-probe of the engine; while the
\* backend spawn is in progress the call's engine spawn, if it made one, is
\* over and stored, and the only handle the call holds is the backend's; no
\* re-probe is made before the delay has elapsed.
C12_StrictlySequential ==
    \A c \in Calls :
        /\ \/ IsPrefix(StepNames(c), C12_WithEngineSpawn)
           \/ IsPrefix(StepNames(c), C12_WithoutEngineSpawn)
        /\ C12_AtBackendSpawn(c) =>
              /\ Did(c, "spawn_ollama", TRUE) => Did(c, "store_ollama", TRUE)
              /\ process[c] # None => KindOf(process[c]) = "flask"
        /\ C12_AtEngineSpawn(c) =>
              /\ "spawn_flask" \notin Steps(c)
              /\ process[c] # None => KindOf(process[c]) = "ollama"
        /\ (pc[c] = "reprobe_ollama" \/ Steps(c) \cap {"reprobe_flask", "reprobe_ollama"} # {}) =>
              Did(c, "sleep", TRUE)

\* One call has run all nine steps, engine spawn included, and the other all
\* seven of a call that found the engine up.
C12_Witness ==
    /\ Finished(StartupCall)
    /\ StepNames(StartupCall) = C12_WithEngineSpawn
    /\ Finished(CommandCall)
    /\ StepNames(CommandCall) = C12_WithoutEngineSpawn

\* ---------------------------------------------------------------- C13
\* The call has left the engine step behind and is at, or past, the backend step.
C13_PastEngineStep(c) == "probe_ollama" \in Steps(c) /\ ~C12_AtEngineSpawn(c) /\ pc[c] # "probe_ollama"

\* The engine spawns the call has attempted.
C13_EngineSpawns(c) == {i \in 1..Len(trace[c]) : trace[c][i].step = "spawn_ollama"}

\* State part: what a call that is past the engine step has done there.
C13_EngineStepDone ==
    \A c \in Calls :
        /\ Did(c, "probe_ollama", TRUE) =>
              /\ C13_EngineSpawns(c) = {}
              /\ "store_ollama" \notin Steps(c)
              /\ Child("ollama", c, CallNumber(c)) \notin Pids
        /\ (Did(c, "probe_ollama", FALSE) /\ C13_PastEngineStep(c)) =>
              /\ Cardinality(C13_EngineSpawns(c)) = 1
              /\ Did(c, "spawn_ollama", FALSE) => pc[c] = "done" /\ Len(trace[c]) = 2
              /\ Did(c, "spawn_ollama", TRUE) =>
                    /\ StepNames(c)[3] = "store_ollama"
                    /\ process[c] # Child("ollama", c, CallNumber(c))

\* Step part: the only step of a call that changes the engine slot is the store
\* of a call whose probe answered false, and it puts that call's child there.
C13_EngineSlotStep ==
    \A c \in Calls :
        pc'[c] # pc[c] =>
            IF pc[c] = "store_ollama"
            THEN /\ Did(c, "probe_ollama", FALSE)
                 /\ process[c] = Child("ollama", c, CallNumber(c))
                 /\ ollama_process' = process[c]
                 /\ pc'[c] = "locate_flask"
            ELSE ollama_process' = ollama_process

\* C13: a bring-up call whose first engine probe answered true attempts no
\* engine spawn and none of its steps changes the engine slot; a call whose
\* probe answered false attempts exactly one engine spawn and, when the spawn
\* succeeds, stores the handle in the engine slot before it begins the
\* backend step.
C13_EngineStep == []C13_EngineStepDone /\ [][C13_EngineSlotStep]_vars

\* The startup call found the engine down, spawned it and stored the handle;
\* the command call then found the engine up and returned, and the slot still
\* holds the startup call's child.
C13_Witness ==
    /\ Did(StartupCall, "probe_ollama", FALSE)
    /\ Did(StartupCall, "store_ollama", TRUE)
    /\ Did(CommandCall, "probe_ollama", TRUE)
    /\ Finished(CommandCall)
    /\ result[CommandCall].kind = "Ok"
    /\ ollama_process = Child("ollama", StartupCall, 1)

\* ---------------------------------------------------------------- C14
\* The backend spawns the call has attempted.
C14_BackendSpawns(c) == {i \in 1..Len(trace[c]) : trace[c][i].step = "spawn_flask"}

\* The backend children spawned so far.
C14_BackendChildren == {p \in Pids : KindOf(p) = "flask"}

\* The backend child of the call the task is making, or made last.
C14_ChildOf(c) == Child("flask", c, CallNumber(c))

\* Every call that found the entry file: one spawn attempt, no more, no less.
C14_OneSpawnPerCall ==
    \A c \in Calls :
        /\ pc[c] = "spawn_flask" => ENABLED SpawnFlask(c)
        /\ (\E i \in 1..Len(trace[c]) : trace[c][i] = Located("present"))
              => Cardinality(C14_BackendSpawns(c)) = (IF pc[c] = "spawn_flask" THEN 0 ELSE 1)
        /\ Did(c, "spawn_flask", TRUE) => C14_ChildOf(c) \in C14_BackendChildren

\* Every task has made a call, every task's last call has returned Ok, and no
\* window-close event was delivered: each of these calls has spawned a backend
\* of its own, none was killed, and the slot holds one handle, of a last call.
C14_OneChildPerCall ==
    (closes = 0 /\ \A c \in Calls : Finished(c) /\ result[c].kind = "Ok") =>
        /\ \A c \in Calls : C14_ChildOf(c) \in C14_BackendChildren
        /\ Cardinality({C14_ChildOf(c) : c \in Calls}) = Cardinality(Calls)
        /\ Cardinality(C14_BackendChildren) >= Cardinality(Calls)
        /\ flask_process \in {C14_ChildOf(c) : c \in Calls}
        /\ \A p \in C14_BackendChildren : procs[p] = 0
        /\ C14_BackendChildren \cap Held = {flask_process}

\* The store of a call puts the call's child in the slot, whatever the slot
\* held, and kills nothing.
C14_StoreStep ==
    \A c \in Calls :
        (pc[c] = "store_flask" /\ pc'[c] # pc[c]) =>
            /\ flask_process' = C14_ChildOf(c)
            /\ procs' = procs

\* C14: every bring-up call that finds the backend entry file attempts exactly
\* one backend spawn, whatever the backend slot holds and with no probe of
\* the backend before it; so calls that returned Ok with no window-close
\* event have each spawned a backend process, while the backend slot holds
\* the handle of one of them only, the one stored last.
C14_UnconditionalBackendSpawn ==
    /\ [](C14_OneSpawnPerCall /\ C14_OneChildPerCall)
    /\ [][C14_StoreStep]_vars

\* Two calls have returned Ok with no window-close event, the first having
\* found the backend reachable: two backend children, the slot holds the
\* command call's.
C14_Witness ==
    /\ closes = 0
    /\ result[StartupCall] = OkStatus(TRUE, TRUE, "All services started successfully")
    /\ result[CommandCall].kind = "Ok"
    /\ C14_BackendChildren = {Child("flask", StartupCall, 1), Child("flask", CommandCall, 1)}
    /\ flask_process = Child("flask", CommandCall, 1)

\* ---------------------------------------------------------------- C15
\* The engine child of the call the task is making, or made last.
C15_EngineOf(c) == Child("ollama", c, CallNumber(c))

\* The engine children spawned so far.
C15_EngineChildren == {p \in Pids : KindOf(p) = "ollama"}

\* The call spawned the engine and then failed at the backend step.
C15_FailedAtBackend(c) ==
    /\ Finished(c)
    /\ Did(c, "spawn_ollama", TRUE)
    /\ \/ \E o \in LocateOutcomes \ {"present"} : trace[c][Len(trace[c])] = Located(o)
       \/ trace[c][Len(trace[c])] = Step("spawn_flask", FALSE)

\* The call failed to spawn the engine.
C15_FailedAtEngine(c) == Finished(c) /\ Did(c, "spawn_ollama", FALSE)

\* State part: what a failed call has done and returned.
C15_FailedCall ==
    \A c \in Calls :
        /\ C15_FailedAtBackend(c) =>
              /\ result[c].kind = "Err"
              /\ Cardinality({i \in 1..Len(trace[c]) : trace[c][i].step = "locate_flask"}) = 1
              /\ Cardinality(C14_BackendSpawns(c)) <= 1
              /\ Cardinality(C13_EngineSpawns(c)) = 1
              /\ C14_ChildOf(c) \notin Pids
              /\ C15_EngineOf(c) \in Pids
              /\ (closes = 0 /\ C15_EngineChildren = {C15_EngineOf(c)}) =>
                    /\ ollama_process = C15_EngineOf(c)
                    /\ procs[C15_EngineOf(c)] = 0
        /\ C15_FailedAtEngine(c) =>
              /\ result[c].kind = "Err"
              /\ StepNames(c) = <<"probe_ollama", "spawn_ollama">>
              /\ C15_EngineOf(c) \notin Pids
              /\ C14_ChildOf(c) \notin Pids

\* Step part: the step in which a call fails at the engine spawn, at the
\* locate or at the backend spawn returns Err and leaves both slots, both
\* locks and every child as they were.
C15_FailingStep ==
    \A c \in Calls :
        (pc[c] \in {"spawn_ollama", "locate_flask", "spawn_flask"} /\ pc'[c] = "done") =>
            /\ result'[c].kind = "Err"
            /\ UNCHANGED <<flask_process, ollama_process, flask_lock, ollama_lock, procs>>

\* C15: a bring-up call that spawned the engine and then fails at the backend
\* step (entry file not found, or backend spawn failure) returns Err with no
\* second attempt; the failing step kills nothing and changes no slot, so
\* the engine child of the call is left running with its handle in the
\* engine slot; a call whose engine spawn fails returns Err at once, both
\* slots unchanged and no backend spawn attempted.
C15_NoRollback == []C15_FailedCall /\ [][C15_FailingStep]_vars

\* The startup call spawned the engine and then failed to spawn the backend:
\* its engine child is in the slot, not killed; the command call failed to
\* spawn the engine.
C15_Witness ==
    /\ C15_FailedAtBackend(StartupCall)
    /\ Did(StartupCall, "spawn_flask", FALSE)
    /\ C15_FailedAtEngine(CommandCall)
    /\ ollama_process = Child("ollama", StartupCall, 1)
    /\ procs[ollama_process] = 0
    /\ flask_process = None

\* ---------------------------------------------------------------- C16
\* The presence check failed and the install command has come back with `o`.
C16_InstallCameBack(o) ==
    /\ C6_PresenceFailed
    /\ Len(in_log) >= 2
    /\ in_log[2] = Ran(InstallCommand(in_platform), o, "")

\* C16: when the engine is not installed and the install command cannot be
\* spawned or exits with a failure status, install_ollama_and_model has
\* returned Err having run nothing after it: no 5 s delay, no pull; when the
\* install command exits with success, the next step is the 5 s delay, the
\* pull comes right after the delay, and a call that has returned has run the
\* pull exactly once.
C16_InstallFailureStopsCall ==
    /\ \A o \in {"spawn_error", "exit_failure"} :
          C16_InstallCameBack(o) =>
              /\ in_pc = "done"
              /\ in_result.kind = "Err"
              /\ \E e \in OsErrors : in_result = install_ollama(in_platform, o, e)
              /\ Len(in_log) = 2
              /\ Ran_at("sleep 5") = {}
              /\ Ran_at("ollama pull phi") = {}
    /\ C16_InstallCameBack("exit_success") =>
          /\ Len(in_log) >= 3 => in_log[3] = Ran("sleep 5", "elapsed", "")
          /\ Len(in_log) >= 4 => in_log[4].step = "ollama pull phi"
          /\ Ran_at("ollama pull phi") \subseteq {4}
          /\ Ran_at("sleep 5") \subseteq {3}
          /\ Len(in_log) <= 4
          /\ in_pc = "done" <=> Ran_at("ollama pull phi") = {4}

\* The install command exited with a failure status and the call returned
\* "Ollama installation failed".
C16_Witness ==
    /\ C16_InstallCameBack("exit_failure")
    /\ in_pc = "done"
    /\ in_result = Err(Str("Ollama installation failed"))

\* The other case of C16: the install command succeeded, the delay elapsed,
\* the pull ran once and the call returned Ok.
C16_WitnessInstalled ==
    /\ C16_InstallCameBack("exit_success")
    /\ in_pc = "done"
    /\ StepNamesOf(in_log) =
          <<"ollama --version", InstallCommand(in_platform), "sleep 5", "ollama pull phi">>
    /\ in_result = OkMessage(Str("Ollama and phi model installed successfully"))

\* ---------------------------------------------------------------- C17
\* The engine has just been installed by this call.
C17_JustInstalled == C16_InstallCameBack("exit_success")

\* The tag listing was queried at step i of the call and the model was not listed.
C17_NotListedAt(i) ==
    /\ in_log[i].step = "GET /api/tags"
    /\ ~check_phi_model_available(in_log[i].outcome, in_log[i].detail)

C18_AwaitPoints == {"startup_sleep", "probe_ollama", "sleep", "reprobe_flask", "reprobe_ollama"}

\* The tasks that can own a lock.
C18_Tasks == Calls \cup {Handler}

\* C18: the engine-slot lock is held only by a bring-up call at its engine
\* store or by the handler at its engine take-and-kill, the backend-slot lock
\* only by a call at its backend store or by the handler at its backend
\* take-and-kill; so a call suspended at a probe or a delay holds no lock, and
\* no task holds both locks at once.
C18_LocksHeldForOneAccess ==
    /\ ollama_lock \in C18_Tasks \cup {NoOwner}
    /\ flask_lock \in C18_Tasks \cup {NoOwner}
    /\ \A c \in Calls :
          /\ ollama_lock = c <=> pc[c] = "store_ollama"
          /\ flask_lock = c <=> pc[c] = "store_flask"
          /\ pc[c] \in C18_AwaitPoints => (ollama_lock # c /\ flask_lock # c)
    /\ ollama_lock = Handler <=> close_pc = "take_ollama"
    /\ flask_lock = Handler <=> close_pc = "take_flask"
    /\ \A t \in C18_Tasks : ~(ollama_lock = t /\ flask_lock = t)

\* Both locks are held at once, by different tasks, while the third task is
\* suspended at its delay.
C18_Witness ==
    /\ flask_lock = Handler
    /\ ollama_lock = StartupCall
    /\ pc[CommandCall] = "sleep"

\* ---------------------------------------------------------------- C19
\* Both calls have observed the engine down, and neither has spawned it yet:
\* no engine child exists.
C19_BothObservedDown ==
    /\ \A c \in Calls : pc[c] = "spawn_ollama" /\ Did(c, "probe_ollama", FALSE)
    /\ C15_EngineChildren = {}

\* Nothing holds a call back at its probe or at its spawn, whatever the other
\* call is doing.
C19_NothingSerialises ==
    \A c \in Calls :
        /\ pc[c] = "probe_ollama" => ENABLED ProbeOllama(c)
        /\ pc[c] = "spawn_ollama" => ENABLED SpawnOllama(c)

\* The calls of both tasks have spawned and stored an engine.
C19_BothStored == \A c \in Calls : Did(c, "store_ollama", TRUE)

\* When both have, there are two engine children and one slot: with no
\* window-close event the slot holds one of the two, and the other is running
\* with no handle left to it.
C19_OneHandleLost ==
    (C19_BothStored /\ closes = 0) =>
        /\ {C15_EngineOf(c) : c \in Calls} \subseteq C15_EngineChildren
        /\ \E c \in Calls :
              /\ ollama_process = C15_EngineOf(c)
              /\ \A d \in Calls \ {c} :
                    /\ C15_EngineOf(d) # C15_EngineOf(c)
                    /\ C15_EngineOf(d) \notin Held
                    /\ procs[C15_EngineOf(d)] = 0

\* C19: two overlapping bring-up calls can race. Nothing holds a call back at
\* its probe or its spawn while the other call is between its own probe and
\* store, so both can observe the engine down and both spawn it; once both
\* have stored, the engine slot holds one handle only, the one stored last,
\* and the other engine runs on with no handle to it.
C19_BringUpCallsRace == C19_NothingSerialises /\ C19_OneHandleLost

\* The race has run its course: both calls observed the engine down, both
\* spawned and stored an engine; the slot holds the startup call's child, and
\* the command call's child runs on, unkilled, in no slot.
C19_Witness ==
    /\ closes = 0
    /\ \A c \in Calls : Did(c, "probe_ollama", FALSE) /\ Did(c, "store_ollama", TRUE)
    /\ C15_EngineChildren = {Child("ollama", StartupCall, 1), Child("ollama", CommandCall, 1)}
    /\ ollama_process = Child("ollama", StartupCall, 1)
    /\ Child("ollama", CommandCall, 1) \notin Held
    /\ procs[Child("ollama", CommandCall, 1)] = 0

\* The behaviours in which the interleaving of C19 does not occur: once both
\* calls have observed the engine down before either spawned it, the race never
\* runs its course. The program has behaviours that are not among these.
C19_RaceNeverRunsItsCourse == [](C19_BothObservedDown => []~C19_Witness)

\* ---------------------------------------------------------------- C20
\* A call in progress eventually returns Ok or Err.
C20_CallReturns(c) ==
    (pc[c] \notin {"idle", "done"}) ~> (pc[c] = "done" /\ result[c].kind \in {"Ok", "Err"})

\* A window-close handler that has begun eventually completes.
C20_HandlerCompletes == (close_pc # "idle") ~> (close_pc = "idle")

\* C20: under fair scheduling, with every probe, spawn and kill returning,
\* every bring-up call eventually returns Ok or Err and every window-close
\* handler eventually completes, however the calls and the handler
\* interleave: no task waits for a lock for ever.
C20_EveryOperationFinishes ==
    /\ \A c \in Calls : C20_CallReturns(c)
    /\ C20_HandlerCompletes

\* The handler holds the backend lock and will want the engine lock, which the
\* command call holds; the startup call waits for the backend lock.
C20_Witness ==
    /\ close_pc = "take_flask"
    /\ flask_lock = Handler
    /\ pc[StartupCall] = "lock_flask"
    /\ pc[CommandCall] = "store_ollama"
    /\ ollama_lock = CommandCall

====
